---- MODULE Spec2Model ----
(***************************************************************************)
(* Prediction freshness controller of the AI service:                      *)
(*   app/services/long_polling_service.py   (poll_for_prediction)          *)
(*   app/services/price_prediction_crud.py  (prediction store adapter)     *)
(*   app/services/price_prediction_service.py (prediction pipeline)        *)
(*   app/api/v1/endpoints/ai_analytics.py   (one-shot and poll endpoints)  *)
(*   app/services/sentiment_service.py     (sentiment, keyword fallback)  *)
(*   app/services/causal_analysis_service.py (causal fallback, candles)     *)
(*   app/api/v1/endpoints/chat.py           (conversation map)             *)
(*                                                                         *)
(* Time is counted in ticks of half a second so that the truncation done   *)
(* by int(...) on a float number of seconds is visible.                    *)
(***************************************************************************)
EXTENDS Integers, Sequences, FiniteSets, TLC

\* ---------------------------------------------------------------- bounds
\* concurrent poll requests
NumReq == 2
\* external events of one run: requests arriving and clock advances
MaxEvents == 4

\* ------------------------------------------------------- program constants
TicksPerSecond == 2
CACHE_REFRESH_INTERVAL_SECONDS == 300
POLL_CHECK_INTERVAL_SECONDS == 5
MIN_NEXT_POLL_SECONDS == 5
FAILURE_NEXT_POLL_SECONDS == 30

\* ------------------------------------------------------------ input sets
Req == 1..NumReq
RawSymbols == {"btcusdt", "BTCUSDT"}
Timeouts == {5, 10}
\* clock advances: 5 s, 120.5 s, 300 s
Jumps == {10, 241, 600}
FetchOutcomes == {"items", "empty", "http_error"}
LlmOutcomes == {"valid", "empty_content", "bad_json", "api_error"}
WriteOutcomes == {"ok", "db_error"}

NoTs == -1
NoRec == [id |-> 0, symbol |-> "", created_at |-> 0, via |-> ""]

\* now, store, req, events: the prediction freshness controller;
\* pp: one run of the prediction pipeline, seen field by field;
\* sa: one sentiment analysis;
\* chat: the conversation map of the chat endpoint and its requests
VARIABLES now, store, req, events, apiKey, pp, sa, chat

vars == <<now, store, req, events, apiKey, pp, sa, chat>>

\* what the freshness controller never touches
sideVars == <<pp, sa, chat>>

\* what the pipeline run, the sentiment analysis and the chat never touch
pollVars == <<now, store, req, events>>

\* ------------------------------------------------------------ pure helpers
Max(a, b) == IF a >= b THEN a ELSE b

\* str.upper() on the symbols of the model
Upper(s) == IF s = "btcusdt" THEN "BTCUSDT" ELSE s

Seconds(n) == n * TicksPerSecond

\* int(x) of a float number of seconds x given in ticks: truncation toward zero
IntSeconds(t) == IF t >= 0 THEN t \div TicksPerSecond ELSE -((-t) \div TicksPerSecond)

Records == {store[i] : i \in 1..Len(store)}

\* ------------------------------------------------- prediction store adapter
\* SELECT ... WHERE symbol = upper(symbol) ORDER BY created_at DESC LIMIT 1
\* (rows with equal created_at: the database may return either)
GetLatestBySymbol(symbol) ==
  LET rows == {x \in Records : x.symbol = Upper(symbol)}
  IN IF rows = {} THEN {NoRec}
     ELSE {x \in rows : \A y \in rows : y.created_at <= x.created_at}

\* variant: the time filter is >= instead of >
GetLatestAfterTime_Inclusive(symbol, after_time) ==
  LET rows == {x \in Records : x.symbol = Upper(symbol) /\ x.created_at >= after_time}
  IN IF rows = {} THEN {NoRec}
     ELSE {x \in rows : \A y \in rows : y.created_at <= x.created_at}

GetLatestAfterTime(symbol, after_time) ==
  LET rows == {x \in Records : x.symbol = Upper(symbol) /\ x.created_at > after_time}
  IN IF rows = {} THEN {NoRec}
     ELSE {x \in rows : \A y \in rows : y.created_at <= x.created_at}

\* variant: the symbol is stored as the caller spelled it
NewRecord_AsGiven(symbol, via) ==
  [id |-> Len(store) + 1, symbol |-> symbol, created_at |-> now, via |-> via]

\* created_at is assigned by the database (server_default now())
NewRecord(symbol, via) ==
  [id |-> Len(store) + 1, symbol |-> Upper(symbol), created_at |-> now, via |-> via]

CreateFromPredictionResult(symbol, via) == Append(store, NewRecord(symbol, via))

\* --------------------------------------------------- prediction pipeline
AnalyzeWithOpenAI(llm) ==
  CASE llm = "valid" -> "ok"
    [] llm = "empty_content" -> "ValueError_empty"
    [] llm = "bad_json" -> "ValueError_json"
    [] OTHER -> "llm_error"

PredictPrice(key, fetch, llm) ==
  IF ~key THEN "ValueError_not_configured"
  ELSE IF fetch = "http_error" THEN "fetch_error"
  ELSE IF fetch = "empty" THEN "ValueError_no_news"
  ELSE AnalyzeWithOpenAI(llm)

\* variant: the insert goes ahead although the pipeline failed
RegenerationOutcome_InsertAnyway(key, fetch, llm, write) ==
  IF write = "ok" THEN "ok" ELSE "insert_error"

\* outcome of "pipeline, then insert, then commit" inside one try block
RegenerationOutcome(key, fetch, llm, write) ==
  LET p == PredictPrice(key, fetch, llm)
  IN IF p # "ok" THEN p ELSE IF write = "ok" THEN "ok" ELSE "insert_error"

\* ------------------------------------------------------ response envelopes
Envelope(success, has_new_data, prediction, cache_hit, next_poll_after) ==
  [kind |-> "envelope", success |-> success, has_new_data |-> has_new_data,
   prediction |-> prediction, cache_hit |-> cache_hit,
   next_poll_after |-> next_poll_after]

Raised ==
  [kind |-> "raised", success |-> FALSE, has_new_data |-> FALSE,
   prediction |-> NoRec, cache_hit |-> FALSE, next_poll_after |-> 0]

NoResp ==
  [kind |-> "none", success |-> FALSE, has_new_data |-> FALSE,
   prediction |-> NoRec, cache_hit |-> FALSE, next_poll_after |-> 0]

\* variant: the lower limit of 5 seconds is forgotten
NextPollAfter_NoFloor(rec) ==
  IntSeconds(Seconds(CACHE_REFRESH_INTERVAL_SECONDS) - (now - rec.created_at))

\* variant: the age is taken instead of what is left of the interval
NextPollAfter_Age(rec) ==
  Max(MIN_NEXT_POLL_SECONDS, IntSeconds(now - rec.created_at))

NextPollAfter(rec) ==
  Max(MIN_NEXT_POLL_SECONDS,
      IntSeconds(Seconds(CACHE_REFRESH_INTERVAL_SECONDS) - (now - rec.created_at)))

\* variant: a record this request has just inserted is reported as a cache hit
GeneratedResponse_Hit(rec) ==
  Envelope(TRUE, TRUE, rec, TRUE, CACHE_REFRESH_INTERVAL_SECONDS)

GeneratedResponse(rec) ==
  Envelope(TRUE, TRUE, rec, FALSE, CACHE_REFRESH_INTERVAL_SECONDS)

\* variant: the degraded envelope claims a cache hit
MissingFailureResponse_Hit ==
  Envelope(FALSE, FALSE, NoRec, TRUE, FAILURE_NEXT_POLL_SECONDS)

\* variant: the first generation is not wrapped in try/except
MissingFailureResponse_Uncaught == Raised

MissingFailureResponse ==
  Envelope(FALSE, FALSE, NoRec, FALSE, FAILURE_NEXT_POLL_SECONDS)

FoundResponse(rec) ==
  Envelope(TRUE, TRUE, rec, TRUE, CACHE_REFRESH_INTERVAL_SECONDS)

\* variant: the stale fallback is reported as new data
StaleFailureResponse_AsNew(rec) ==
  Envelope(TRUE, TRUE, rec, TRUE, FAILURE_NEXT_POLL_SECONDS)

StaleFailureResponse(rec) ==
  Envelope(TRUE, FALSE, rec, TRUE, FAILURE_NEXT_POLL_SECONDS)

\* variant: the record the client already has is reported as new data
StillFreshResponse_AsNew(rec) ==
  Envelope(TRUE, TRUE, rec, TRUE, NextPollAfter(rec))

StillFreshResponse(rec) ==
  Envelope(TRUE, FALSE, rec, TRUE, NextPollAfter(rec))

\* variant: a record read from the store is reported as a cache miss
ServeResponse_Miss(rec) ==
  Envelope(TRUE, TRUE, rec, FALSE, NextPollAfter(rec))

ServeResponse(rec) ==
  Envelope(TRUE, TRUE, rec, TRUE, NextPollAfter(rec))

\* ------------------------------------------------------------ request state
IdleReq ==
  [pc |-> "idle", symbol |-> "", ts |-> NoTs, timeout |-> 0,
   latest |-> NoRec, start |-> 0, wakeAt |-> 0,
   regenCalls |-> 0, inserts |-> 0, queries |-> 0,
   path |-> "", resp |-> NoResp]

Finish(q, path, resp) ==
  [q EXCEPT !.pc = "done", !.path = path, !.resp = resp]

\* variant: a failed first generation is tried again instead of answered
MissingFailed_Retry(q) == [q EXCEPT !.pc = "gen_missing"]

\* variant: the regeneration after the wait is not wrapped in try/except
StaleFailed_Uncaught(q) == Finish(q, "stale_fail", Raised)

\* except-branch of the first generation: answer the degraded envelope
MissingFailed(q) == Finish(q, "missing_fail", MissingFailureResponse)

\* except-branch of the regeneration after the wait: answer the stale record
StaleFailed(q) == Finish(q, "stale_fail", StaleFailureResponse(q.latest))

\* no response is waiting to be handed to its caller: returning a response
\* takes no time, so a finished request leaves before anything else happens
Quiet == \A r \in Req : req[r].pc # "done"

ClientTimes == {NoTs, now} \cup {x.created_at : x \in Records}

\* ------------------------------------------ pipeline run, field by field
\* settings.OPENAI_MODEL
OPENAI_MODEL == "gpt-4o-mini"

\* message.content of the chat completion: kind "json" is a JSON object with
\* the members named in has; confidence is in hundredths
NoReply == [kind |-> "none", has |-> {}, confidence |-> 0, key_factors |-> <<>>]

\* a PricePredictionResult (analyzed_at left out)
NoResult ==
  [symbol |-> "", prediction |-> "", confidence |-> 0, sentiment_summary |-> <<>>,
   reasoning |-> "", key_factors |-> <<>>, news_analyzed |-> 0, model_version |-> ""]

IdlePipeline ==
  [pc |-> "idle", via |-> "", symbol |-> "", news |-> 0, reply |-> NoReply,
   result |-> NoResult, back |-> NoResult, error |-> "",
   rows |-> <<>>, clock |-> 0, runs |-> 0]

\* ---------------------------------------------------- sentiment analysis
\* a SentimentAnalysisResult: score in hundredths, confidence as a fraction
NoSentiment ==
  [sentiment_label |-> "", sentiment_score |-> 0, confNum |-> 0, confDen |-> 1,
   model_version |-> ""]

\* the pair (CausalRelationship, TrendPrediction): correlation in 1/500
NoCausal ==
  [by |-> "", relationship_type |-> "", correlation |-> 0, direction |-> "",
   confidence |-> 0, expected_change |-> 0, evidence_points |-> 0, key_factors |-> 0]

IdleAnalysis ==
  [pc |-> "idle", request |-> [text |-> <<>>], llmCalls |-> 0, keywordCalls |-> 0,
   llmFailed |-> FALSE, outcome |-> "", error |-> "", result |-> NoSentiment,
   causal |-> NoCausal]

\* ------------------------------------------------------------------ chat
\* a ChatMessage: n is the order of creation
NoMessage == [n |-> 0, role |-> ""]

\* the handler of one chat request; history is the list object it holds
IdleChat ==
  [pc |-> "idle", conversation_id |-> "", history |-> 0, user |-> NoMessage,
   assistant |-> NoMessage, overlapped |-> FALSE, status |-> 0, total_messages |-> 0]

\* conversations: the module-level dict, from conversation id to a list
\* object; heap: the content of the list objects; cleared: per conversation
\* id, the last message created before its latest deletion; log: per
\* conversation id, the messages created since
NoChat ==
  [conversations |-> <<>>, heap |-> <<>>, req |-> [r \in Req |-> IdleChat],
   seq |-> 0, uuids |-> 0, started |-> 0, cleared |-> <<>>, log |-> <<>>]

Init ==
  /\ now = 0
  /\ store = <<>>
  /\ req = [r \in Req |-> IdleReq]
  /\ events = 0
  /\ apiKey \in BOOLEAN
  /\ pp = IdlePipeline
  /\ sa = IdleAnalysis
  /\ chat = NoChat

\* --------------------------------------------------------------- actions
\* poll_for_prediction up to its first suspension after the lookup
PollStart(r, symbol, ts, timeout, readOk) ==
  /\ Quiet
  /\ req[r].pc = "idle"
  /\ \A r2 \in Req : r2 < r => req[r2].pc # "idle"
  /\ events < MaxEvents
  /\ events' = events + 1
  /\ LET q0 == [IdleReq EXCEPT !.symbol = Upper(symbol),
                     !.ts = ts, !.timeout = timeout,
                     !.start = now, !.queries = 1]
     IN IF ~readOk
        THEN req' = [req EXCEPT ![r] = Finish(q0, "lookup_error", Raised)]
        ELSE \E latest \in GetLatestBySymbol(symbol) :
               LET q == [q0 EXCEPT !.latest = latest]
               IN IF latest = NoRec
                  THEN req' = [req EXCEPT ![r] = [q EXCEPT !.pc = "gen_missing"]]
                  ELSE IF ts # NoTs /\ latest.created_at <= ts
                  THEN req' = [req EXCEPT ![r] = [q EXCEPT !.pc = "wait_query"]]
                  ELSE req' = [req EXCEPT ![r] = Finish(q, "serve", ServeResponse(latest))]
  /\ UNCHANGED <<now, store, apiKey>>
  /\ UNCHANGED sideVars

\* the "no prediction exists" branch: one pipeline call, insert, commit
GenerateMissing(r, fetch, llm, write) ==
  /\ Quiet
  /\ req[r].pc = "gen_missing"
  /\ LET out == RegenerationOutcome(apiKey, fetch, llm, write)
         q == [req[r] EXCEPT !.regenCalls = @ + 1]
     IN IF out = "ok"
        THEN /\ store' = CreateFromPredictionResult(q.symbol, "poll")
             /\ req' = [req EXCEPT ![r] =
                          Finish([q EXCEPT !.inserts = @ + 1], "missing_ok",
                                 GeneratedResponse(NewRecord(q.symbol, "poll")))]
        ELSE /\ store' = store
             /\ req' = [req EXCEPT ![r] = MissingFailed(q)]
  /\ UNCHANGED <<now, events, apiKey>>
  /\ UNCHANGED sideVars

\* variant: the wait looks for records newer than the record found at
\* lookup instead of newer than the client's timestamp
CheckForNew_SinceLookup(q, readOk) ==
  LET q1 == [q EXCEPT !.queries = @ + 1]
  IN IF ~readOk
     THEN {Finish(q1, "wait_error", Raised)}
     ELSE {IF found # NoRec
           THEN Finish(q1, "found", FoundResponse(found))
           ELSE [q1 EXCEPT !.pc = "wait_sleep",
                           !.wakeAt = now + Seconds(POLL_CHECK_INTERVAL_SECONDS)]
           : found \in GetLatestAfterTime(q.symbol, q.latest.created_at)}

\* one store check of the loop of _wait_for_new_prediction: a newer record
\* ends the request, otherwise the request sleeps for the check interval
CheckForNew(q, readOk) ==
  LET q1 == [q EXCEPT !.queries = @ + 1]
  IN IF ~readOk
     THEN {Finish(q1, "wait_error", Raised)}
     ELSE {IF found # NoRec
           THEN Finish(q1, "found", FoundResponse(found))
           ELSE [q1 EXCEPT !.pc = "wait_sleep",
                           !.wakeAt = now + Seconds(POLL_CHECK_INTERVAL_SECONDS)]
           : found \in GetLatestAfterTime(q.symbol, q.ts)}

\* the wait returned None: regenerate if the record found at lookup is now
\* at least 300 s old, else answer with it
AfterTimeout(q) ==
  IF now - q.latest.created_at >= Seconds(CACHE_REFRESH_INTERVAL_SECONDS)
  THEN [q EXCEPT !.pc = "gen_stale"]
  ELSE Finish(q, "still_fresh", StillFreshResponse(q.latest))

\* the first store check of the wait (the loop condition held on entry)
WaitQuery(r, readOk) ==
  /\ Quiet
  /\ req[r].pc = "wait_query"
  /\ \E q2 \in CheckForNew(req[r], readOk) : req' = [req EXCEPT ![r] = q2]
  /\ UNCHANGED <<now, store, events, apiKey>>
  /\ UNCHANGED sideVars

\* the sleep is over: the loop condition is evaluated again and either the
\* store is checked once more or the wait ends
WaitWake(r, readOk) ==
  /\ Quiet
  /\ req[r].pc = "wait_sleep"
  /\ now >= req[r].wakeAt
  /\ IF now - req[r].start < Seconds(req[r].timeout)
     THEN \E q2 \in CheckForNew(req[r], readOk) : req' = [req EXCEPT ![r] = q2]
     ELSE req' = [req EXCEPT ![r] = AfterTimeout(req[r])]
  /\ UNCHANGED <<now, store, events, apiKey>>
  /\ UNCHANGED sideVars

\* the "cache expired" branch after the wait timed out
GenerateStale(r, fetch, llm, write) ==
  /\ Quiet
  /\ req[r].pc = "gen_stale"
  /\ LET out == RegenerationOutcome(apiKey, fetch, llm, write)
         q == [req[r] EXCEPT !.regenCalls = @ + 1]
     IN IF out = "ok"
        THEN /\ store' = CreateFromPredictionResult(q.symbol, "poll")
             /\ req' = [req EXCEPT ![r] =
                          Finish([q EXCEPT !.inserts = @ + 1], "stale_ok",
                                 GeneratedResponse(NewRecord(q.symbol, "poll")))]
        ELSE /\ store' = store
             /\ req' = [req EXCEPT ![r] = StaleFailed(q)]
  /\ UNCHANGED <<now, events, apiKey>>
  /\ UNCHANGED sideVars

\* the response is handed to the caller of poll_for_prediction
PollReturn(r) ==
  /\ req[r].pc = "done"
  /\ req' = [req EXCEPT ![r] = IdleReq]
  /\ UNCHANGED <<now, store, events, apiKey>>
  /\ UNCHANGED sideVars

\* POST /predict-price: pipeline, then a save whose failure is not fatal
PredictPriceFromNews(symbol, fetch, llm, write) ==
  /\ Quiet
  /\ events < MaxEvents
  /\ events' = events + 1
  /\ IF PredictPrice(apiKey, fetch, llm) = "ok" /\ write = "ok"
     THEN store' = CreateFromPredictionResult(symbol, "oneshot")
     ELSE store' = store
  /\ UNCHANGED <<now, req, apiKey>>
  /\ UNCHANGED sideVars

\* the clock advances: a store check takes no noticeable time and
\* asyncio.sleep wakes a sleeping request on time, while the prediction
\* pipeline may take any time
Tick(d) ==
  /\ Quiet
  /\ \A r \in Req : req[r].pc # "wait_query"
  /\ \A r \in Req : req[r].pc = "wait_sleep" => now + d <= req[r].wakeAt
  /\ events < MaxEvents
  /\ events' = events + 1
  /\ now' = now + d
  /\ UNCHANGED <<store, req, apiKey>>
  /\ UNCHANGED sideVars

Next ==
  \/ \E r \in Req, s \in RawSymbols, ts \in ClientTimes, t \in Timeouts, ok \in BOOLEAN :
       PollStart(r, s, ts, t, ok)
  \/ \E r \in Req, f \in FetchOutcomes, l \in LlmOutcomes, w \in WriteOutcomes :
       GenerateMissing(r, f, l, w)
  \/ \E r \in Req, ok \in BOOLEAN : WaitQuery(r, ok)
  \/ \E r \in Req, ok \in BOOLEAN : WaitWake(r, ok)
  \/ \E r \in Req, f \in FetchOutcomes, l \in LlmOutcomes, w \in WriteOutcomes :
       GenerateStale(r, f, l, w)
  \/ \E r \in Req : PollReturn(r)
  \/ \E s \in RawSymbols, f \in FetchOutcomes, l \in LlmOutcomes, w \in WriteOutcomes :
       PredictPriceFromNews(s, f, l, w)
  \/ \E d \in Jumps : Tick(d)

Spec == Init /\ [][Next]_vars

TypeOK ==
  /\ now \in Nat
  /\ \A r \in Req : req[r].pc \in {"idle", "gen_missing", "wait_query", "wait_sleep",
                                   "gen_stale", "done"}

\* ============================================ the pipeline, field by field
\* one run of predict_price followed by create_from_prediction_result and a
\* read back, with the content of the news fetch, of the LLM reply and of
\* the stored row spelled out
MaxRuns == 2

\* who runs the pipeline: the poll controller or POST /predict-price
Callers == {"poll", "oneshot"}

\* number of items in the crawler's answer (limit is 10)
NewsCounts == {0, 1, 5}

\* what an upstream HTTP service does with a GET: it answers with n items,
\* or the call fails (connection refused, timeout, raise_for_status)
UpstreamFailures == {"unreachable", "timeout", "status_500"}
UpstreamReplies ==
  {[kind |-> k, items |-> 0] : k \in UpstreamFailures}
    \cup {[kind |-> "ok", items |-> n] : n \in NewsCounts}

\* PricePredictionService.fetch_latest_news: ok = FALSE stands for the
\* exception it raises again
FetchLatestNews(upstream) ==
  IF upstream.kind = "ok" THEN [ok |-> TRUE, items |-> upstream.items]
  ELSE [ok |-> FALSE, items |-> 0]

\* PredictionLineService._fetch_recent_klines and
\* CausalAnalysisService.fetch_price_history: every exception gives []
FetchRecentKlines(upstream) ==
  IF upstream.kind = "ok" THEN [ok |-> TRUE, items |-> upstream.items]
  ELSE [ok |-> TRUE, items |-> 0]
FetchPriceHistory(upstream) ==
  IF upstream.kind = "ok" THEN [ok |-> TRUE, items |-> upstream.items]
  ELSE [ok |-> TRUE, items |-> 0]

FetchResults == {FetchLatestNews(u) : u \in UpstreamReplies}

RequiredFields ==
  {"prediction", "confidence", "sentiment_summary", "reasoning", "key_factors"}

\* confidence values of a reply, in hundredths
ReplyConfidences == {-20, 0, 85, 150}
FactorCounts == {0, 5, 7}
Factors(k) == [i \in 1..k |-> ToString(i)]

LlmReplies ==
  {[NoReply EXCEPT !.kind = k] : k \in {"api_error", "empty", "bad_json"}}
    \cup {[kind |-> "json", has |-> RequiredFields \ drop, confidence |-> c,
           key_factors |-> Factors(k)] :
            drop \in {{}, {"confidence"}, {"key_factors"}},
            c \in ReplyConfidences, k \in FactorCounts}

\* the dict the model puts under "sentiment_summary" (insertion ordered)
SentimentSummary == <<<<"bullish_signals", 3>>, <<"bearish_signals", 1>>>>

\* json.dumps / json.loads: the column holds the JSON text of the value
JsonDumps(v) == <<"json", v>>
JsonLoads(t) == t[2]

Failure(error) == [ok |-> FALSE, error |-> error, result |-> NoResult]
Success(result) == [ok |-> TRUE, error |-> "", result |-> result]

\* the field constraints of PricePredictionResult: confidence ge=0.0, le=1.0;
\* key_factors is list[str] of any length
ValidPricePredictionResult(result) ==
  result.confidence >= 0 /\ result.confidence <= 100

\* _analyze_with_openai from the reply on: every failure is raised again
AnalyzeReply(symbol, news_count, reply) ==
  IF reply.kind = "api_error" THEN Failure("APIError")
  ELSE IF reply.kind = "empty" THEN Failure("ValueError_empty")
  ELSE IF reply.kind = "bad_json" THEN Failure("ValueError_json")
  ELSE IF ~(RequiredFields \subseteq reply.has) THEN Failure("KeyError")
  ELSE LET result == [symbol |-> symbol, prediction |-> "bullish",
                      confidence |-> reply.confidence,
                      sentiment_summary |-> SentimentSummary,
                      reasoning |-> "because",
                      key_factors |-> reply.key_factors,
                      news_analyzed |-> news_count,
                      model_version |-> OPENAI_MODEL]
       IN IF ValidPricePredictionResult(result) THEN Success(result)
          ELSE Failure("ValidationError")

\* the row built by create_from_prediction_result
PricePredictionRow(result, id, created_at) ==
  [id |-> id, symbol |-> Upper(result.symbol), prediction |-> result.prediction,
   confidence |-> result.confidence,
   sentiment_summary |-> JsonDumps(result.sentiment_summary),
   reasoning |-> result.reasoning, key_factors |-> JsonDumps(result.key_factors),
   news_analyzed |-> result.news_analyzed, model_version |-> result.model_version,
   created_at |-> created_at]

\* variant: key_factors is handed back as stored, without json.loads
ToPredictionResult_Raw(row) ==
  [symbol |-> row.symbol, prediction |-> row.prediction,
   confidence |-> row.confidence,
   sentiment_summary |-> JsonLoads(row.sentiment_summary),
   reasoning |-> row.reasoning, key_factors |-> row.key_factors,
   news_analyzed |-> row.news_analyzed, model_version |-> row.model_version]

ToPredictionResult(row) ==
  [symbol |-> row.symbol, prediction |-> row.prediction,
   confidence |-> row.confidence,
   sentiment_summary |-> JsonLoads(row.sentiment_summary),
   reasoning |-> row.reasoning, key_factors |-> JsonLoads(row.key_factors),
   news_analyzed |-> row.news_analyzed, model_version |-> row.model_version]

Rows == {pp.rows[i] : i \in 1..Len(pp.rows)}
RowsOf(symbol) == {x \in Rows : x.symbol = Upper(symbol)}

\* get_latest_by_symbol on the rows (equal created_at: either row)
LatestRows(symbol) ==
  {x \in RowsOf(symbol) : \A y \in RowsOf(symbol) : y.created_at <= x.created_at}

\* predict_price is entered: without API key it raises at once
PpStart(symbol, via) ==
  /\ pp.pc = "idle"
  /\ pp.runs < MaxRuns
  /\ LET p == [pp EXCEPT !.runs = @ + 1, !.via = via,
                         !.symbol = IF via = "poll" THEN Upper(symbol) ELSE symbol,
                         !.news = 0, !.reply = NoReply, !.result = NoResult,
                         !.back = NoResult, !.error = ""]
     IN pp' = IF apiKey THEN [p EXCEPT !.pc = "fetch"]
              ELSE [p EXCEPT !.pc = "failed", !.error = "ValueError_not_configured"]
  /\ UNCHANGED <<apiKey, sa, chat>>
  /\ UNCHANGED pollVars

\* fetch_latest_news and the check for an empty list
PpFetch(fetched) ==
  /\ pp.pc = "fetch"
  /\ pp' = IF ~fetched.ok
           THEN [pp EXCEPT !.pc = "failed", !.error = "HTTPError"]
           ELSE IF fetched.items = 0
           THEN [pp EXCEPT !.pc = "failed", !.error = "ValueError_no_news"]
           ELSE [pp EXCEPT !.pc = "analyze", !.news = fetched.items]
  /\ UNCHANGED <<apiKey, sa, chat>>
  /\ UNCHANGED pollVars

\* _analyze_with_openai on the reply of the LLM
PpAnalyze(reply) ==
  /\ pp.pc = "analyze"
  /\ LET a == AnalyzeReply(pp.symbol, pp.news, reply)
     IN pp' = IF a.ok
              THEN [pp EXCEPT !.pc = "save", !.reply = reply, !.result = a.result]
              ELSE [pp EXCEPT !.pc = "failed", !.reply = reply, !.error = a.error]
  /\ UNCHANGED <<apiKey, sa, chat>>
  /\ UNCHANGED pollVars

\* create_from_prediction_result and commit; the database clock may or may
\* not have advanced since the previous insert
PpSave(write, advance) ==
  /\ pp.pc = "save"
  /\ LET t == IF advance THEN pp.clock + 1 ELSE pp.clock
     IN pp' = IF write = "ok"
              THEN [pp EXCEPT !.pc = "saved", !.clock = t,
                      !.rows = Append(@, PricePredictionRow(pp.result, Len(pp.rows) + 1, t))]
              ELSE [pp EXCEPT !.pc = "failed", !.error = "insert_error"]
  /\ UNCHANGED <<apiKey, sa, chat>>
  /\ UNCHANGED pollVars

\* get_latest_by_symbol for the symbol just saved, then to_prediction_result
PpRead ==
  /\ pp.pc = "saved"
  /\ \E row \in LatestRows(pp.symbol) :
       pp' = [pp EXCEPT !.pc = "read", !.back = ToPredictionResult(row)]
  /\ UNCHANGED <<apiKey, sa, chat>>
  /\ UNCHANGED pollVars

\* the run is over; the table stays
PpDone ==
  /\ pp.pc \in {"failed", "read"}
  /\ pp' = [pp EXCEPT !.pc = "idle"]
  /\ UNCHANGED <<apiKey, sa, chat>>
  /\ UNCHANGED pollVars

PipelineNext ==
  \/ \E s \in RawSymbols, v \in Callers : PpStart(s, v)
  \/ \E f \in FetchResults : PpFetch(f)
  \/ \E l \in LlmReplies : PpAnalyze(l)
  \/ \E w \in WriteOutcomes, a \in BOOLEAN : PpSave(w, a)
  \/ PpRead
  \/ PpDone

PipelineSpec == Init /\ [][PipelineNext]_vars

\* ====================================================== sentiment analysis
\* analyze_text with its LLM path and its keyword path, and the causal
\* fallback that consumes its result
MaxWords == 2

\* lower-cased words a text is made of
Words == {"bull", "bullish", "surge", "bear", "crash", "stable", "btc"}
Texts == UNION {[1..n -> Words] : n \in 1..MaxWords}

\* every request the schema builds has the one field text
SentimentAnalysisRequests == {[text |-> t] : t \in Texts}

bullish_keywords ==
  {"bull", "bullish", "growth", "surge", "rally", "profit", "gain", "positive",
   "up", "rise", "pump", "moon", "breakout", "support", "buy", "accumulate",
   "hodl", "adoption", "partnership"}
bearish_keywords ==
  {"bear", "bearish", "decline", "crash", "drop", "loss", "negative", "down",
   "fall", "dump", "dip", "breakdown", "resistance", "sell", "fear", "panic",
   "regulation", "hack", "scam"}
neutral_keywords ==
  {"stable", "sideways", "consolidation", "range", "waiting", "uncertain",
   "mixed", "flat"}

\* the keywords that are substrings of a word ("keyword in text")
SubstringsOf(word) ==
  CASE word = "bull" -> {"bull"}
    [] word = "bullish" -> {"bull", "bullish"}
    [] word = "surge" -> {"surge"}
    [] word = "bear" -> {"bear"}
    [] word = "crash" -> {"crash"}
    [] word = "stable" -> {"stable"}
    [] OTHER -> {}

\* sum(1 for keyword in keywords if keyword in text)
KeywordCount(keywords, text) ==
  Cardinality({k \in keywords : \E i \in 1..Len(text) : k \in SubstringsOf(text[i])})

Min(a, b) == IF a <= b THEN a ELSE b

HasAttr(obj, name) == name \in DOMAIN obj

Raise(error) == [ok |-> FALSE, error |-> error, result |-> NoSentiment]
Return(result) == [ok |-> TRUE, error |-> "", result |-> result]

\* _analyze_with_keywords: the counts, the label and score, the confidence,
\* and the model_version read from the request
AnalyzeWithKeywords(request) ==
  LET text == request.text
      bullish_count == KeywordCount(bullish_keywords, text)
      bearish_count == KeywordCount(bearish_keywords, text)
      neutral_count == KeywordCount(neutral_keywords, text)
      verdict ==
        IF bullish_count > bearish_count /\ bullish_count > neutral_count
        THEN <<"bullish", Min(50 + bullish_count * 8, 95)>>
        ELSE IF bearish_count > bullish_count /\ bearish_count > neutral_count
        THEN <<"bearish", Max(50 - bearish_count * 8, 5)>>
        ELSE <<"neutral", 50>>
      total_keywords == bullish_count + bearish_count + neutral_count
      word_count == Max(Len(text), 1)
  IN IF ~HasAttr(request, "model_version")
     THEN Raise("AttributeError")
     ELSE Return([sentiment_label |-> verdict[1], sentiment_score |-> verdict[2],
                  confNum |-> Min(50 * word_count + 200 * total_keywords, 85 * word_count),
                  confDen |-> 100 * word_count,
                  model_version |->
                    "keyword-fallback-" \o
                      (IF request.model_version = "" THEN "v1.0.0"
                       ELSE request.model_version)])

\* the chat completion asked for by _analyze_with_openai: kind "json" is a
\* JSON object; numeric says whether float() accepts its score and confidence
SentimentReplies ==
  {[kind |-> k, label |-> "", score |-> 0, confidence |-> 0, numeric |-> FALSE] :
     k \in {"api_error", "timeout", "empty", "bad_json"}}
    \cup {[kind |-> "json", label |-> l, score |-> sc, confidence |-> c, numeric |-> n] :
            l \in {"Bullish", "neutral"}, sc \in {-20, 70, 150}, c \in {80, 150},
            n \in BOOLEAN}

\* str.lower() on the labels of the model
Lower(s) == IF s = "Bullish" THEN "bullish" ELSE s

\* max(0.0, min(1.0, x)), x in hundredths
Clamp01(x) == Max(0, Min(100, x))

\* the try block of _analyze_with_openai from the reply on
AnalyzeSentimentReply(reply) ==
  IF reply.kind \in {"api_error", "timeout"} THEN Raise("APIError")
  ELSE IF reply.kind = "empty" THEN Raise("ValueError")
  ELSE IF reply.kind = "bad_json" THEN Raise("JSONDecodeError")
  ELSE IF ~reply.numeric THEN Raise("ValueError")
  ELSE Return([sentiment_label |-> Lower(reply.label),
               sentiment_score |-> Clamp01(reply.score),
               confNum |-> Clamp01(reply.confidence), confDen |-> 100,
               model_version |-> OPENAI_MODEL])

\* closing prices around the news; NoPrice: no candle after the news
NoPrice == -1
PricesBefore == {0, 100}
PricesAfter == {NoPrice, 0, 90, 150}

\* _analyze_fallback of the causal analysis; both results pass their schemas
AnalyzeFallback(sentiment, price_before, price_after) ==
  LET price_change ==
        IF price_after # NoPrice /\ price_after # 0 /\ price_before > 0
        THEN ((price_after - price_before) * 100) \div price_before
        ELSE 0
      raw == (sentiment.sentiment_score - 50) * price_change
      correlation == Max(-500, Min(500, raw))
      strength == IF correlation >= 0 THEN correlation ELSE -correlation
  IN [by |-> "fallback",
      relationship_type |->
        IF strength > 350 THEN "STRONG"
        ELSE IF strength > 200 THEN "MODERATE"
        ELSE IF strength > 50 THEN "WEAK" ELSE "NONE",
      correlation |-> correlation,
      direction |->
        IF sentiment.sentiment_score > 60 THEN "UP"
        ELSE IF sentiment.sentiment_score < 40 THEN "DOWN" ELSE "NEUTRAL",
      confidence |-> 60,
      expected_change |->
        IF sentiment.sentiment_score > 60 THEN 2
        ELSE IF sentiment.sentiment_score < 40 THEN -2 ELSE 0,
      evidence_points |-> 3, key_factors |-> 2]

\* what _analyze_with_ai returns when the LLM answers well
AiCausal == [NoCausal EXCEPT !.by = "ai", !.relationship_type = "WEAK",
                             !.direction = "UP", !.confidence = 70,
                             !.evidence_points = 1, !.key_factors = 1]

\* the analysis ends: with a result, or with the exception that leaves
\* analyze_text
Finished(a, out) ==
  [a EXCEPT !.pc = "done", !.outcome = IF out.ok THEN "result" ELSE "raised",
            !.error = out.error, !.result = out.result]

\* one call of _analyze_with_keywords on the request of the analysis
RunKeywords(a) ==
  Finished([a EXCEPT !.keywordCalls = @ + 1], AnalyzeWithKeywords(a.request))

\* analyze_text (use_openai is the switch of /analyze/quick): the keyword
\* path runs at once, the LLM path waits for the completion
SaStart(request, use_openai) ==
  /\ sa.pc = "idle"
  /\ LET a == [IdleAnalysis EXCEPT !.request = request]
     IN sa' = IF apiKey /\ use_openai THEN [a EXCEPT !.pc = "llm"]
              ELSE RunKeywords(a)
  /\ UNCHANGED <<apiKey, pp, chat>>
  /\ UNCHANGED pollVars

\* the completion arrives (or the call fails): every failure goes to the
\* keyword path in the except blocks
SaLlm(reply) ==
  /\ sa.pc = "llm"
  /\ LET a == [sa EXCEPT !.llmCalls = @ + 1]
         out == AnalyzeSentimentReply(reply)
     IN sa' = IF out.ok THEN Finished(a, out)
              ELSE RunKeywords([a EXCEPT !.llmFailed = TRUE])
  /\ UNCHANGED <<apiKey, pp, chat>>
  /\ UNCHANGED pollVars

\* the causal analysis goes on with the sentiment result: the AI analysis
\* when a client is configured and the LLM answers well, else the fallback
SaCausal(price_before, price_after, ai_ok) ==
  /\ sa.pc = "done"
  /\ sa.outcome = "result"
  /\ sa' = [sa EXCEPT !.pc = "causal_done",
              !.causal = IF apiKey /\ ai_ok THEN AiCausal
                         ELSE AnalyzeFallback(sa.result, price_before, price_after)]
  /\ UNCHANGED <<apiKey, pp, chat>>
  /\ UNCHANGED pollVars

SaReturn ==
  /\ sa.pc \in {"done", "causal_done"}
  /\ sa' = IdleAnalysis
  /\ UNCHANGED <<apiKey, pp, chat>>
  /\ UNCHANGED pollVars

SentimentNext ==
  \/ \E q \in SentimentAnalysisRequests, u \in BOOLEAN : SaStart(q, u)
  \/ \E l \in SentimentReplies : SaLlm(l)
  \/ \E b \in PricesBefore, a \in PricesAfter, ok \in BOOLEAN : SaCausal(b, a, ok)
  \/ SaReturn

SentimentSpec == Init /\ [][SentimentNext]_vars

\* ==================================================================== chat
\* POST /chat and DELETE /chat/{conversation_id} on the in-memory
\* conversation map; a request is suspended once, at the await of the AI call
MaxChats == 2

\* "Limit conversation history to last 50 messages"
MAX_CONVERSATION_MESSAGES == 50

\* request.conversation_id: absent, or the id of a conversation
None == "None"
ConversationIdsGiven == {None, "c1"}
AccountTypes == {"VIP", "FREE"}

HTTP_200_OK == 200
HTTP_403_FORBIDDEN == 403
HTTP_503_SERVICE_UNAVAILABLE == 503

\* dict operations: d[k] = v, del d[k], d.get(k, default)
Put(d, k, v) == [x \in DOMAIN d \cup {k} |-> IF x = k THEN v ELSE d[x]]
Del(d, k) == [x \in DOMAIN d \ {k} |-> d[x]]
Get(d, k, default) == IF k \in DOMAIN d THEN d[k] ELSE default

\* list[-n:]
LastN(list, n) ==
  IF Len(list) > n THEN SubSeq(list, Len(list) - n + 1, Len(list)) ELSE list

\* a list object that does not exist yet
NewList(heap) ==
  CHOOSE o \in 1..(Cardinality(DOMAIN heap) + 1) :
    o \notin DOMAIN heap /\ \A o2 \in 1..(o - 1) : o2 \in DOMAIN heap

\* the list objects the map or a suspended handler still refers to; the
\* others are freed
Referenced(c) ==
  {c.conversations[id] : id \in DOMAIN c.conversations}
    \cup {c.req[r].history : r \in {r2 \in Req : c.req[r2].pc = "await"}}
Collect(c) == [c EXCEPT !.heap = [o \in DOMAIN @ \cap Referenced(c) |-> @[o]]]

\* f"conv-{uuid.uuid4().hex[:16]}": an id no conversation has yet
NewConversationId(c) == "conv-" \o ToString(c.uuids + 1)

\* conversations earlier requests have left behind: none, or "c1" with k
\* messages of k/2 answered requests
EarlierLengths == {0, 48, 50}
Earlier(k) ==
  [i \in 1..k |-> [n |-> i, role |-> IF i % 2 = 1 THEN "user" ELSE "assistant"]]
EarlierChat(k) ==
  IF k = 0 THEN NoChat
  ELSE [NoChat EXCEPT !.conversations = Put(<<>>, "c1", 1),
                      !.heap = Put(<<>>, 1, Earlier(k)),
                      !.seq = k, !.log = Put(<<>>, "c1", Earlier(k))]

\* a conversation can only have been stored with the API key configured
ChatInit ==
  /\ now = 0
  /\ store = <<>>
  /\ req = [r \in Req |-> IdleReq]
  /\ events = 0
  /\ apiKey \in BOOLEAN
  /\ pp = IdlePipeline
  /\ sa = IdleAnalysis
  /\ \E k \in EarlierLengths : (k > 0 => apiKey) /\ chat = EarlierChat(k)

\* chat() up to the await of chat_service.chat: the history is the stored
\* list itself when the conversation exists, a new list otherwise, and the
\* user message is appended to it; without API key the service raises at
\* once and the request ends with 503
ChatStart(r, conversation_id, account_type) ==
  /\ chat.req[r].pc = "idle"
  /\ \A r2 \in Req : r2 < r => chat.req[r2].pc # "idle"
  /\ chat.started < MaxChats
  /\ IF account_type # "VIP"
     THEN chat' = [chat EXCEPT !.started = @ + 1,
                     !.req[r] = [IdleChat EXCEPT !.pc = "done",
                                                 !.status = HTTP_403_FORBIDDEN]]
     ELSE LET id == IF conversation_id = None THEN NewConversationId(chat)
                    ELSE conversation_id
              history == IF id \in DOMAIN chat.conversations
                         THEN chat.conversations[id] ELSE NewList(chat.heap)
              user_message == [n |-> chat.seq + 1, role |-> "user"]
              q == [IdleChat EXCEPT
                      !.conversation_id = id, !.user = user_message,
                      !.overlapped = \E r2 \in Req :
                         chat.req[r2].pc = "await" /\ chat.req[r2].conversation_id = id]
              c == [chat EXCEPT
                      !.started = @ + 1, !.seq = @ + 1,
                      !.uuids = IF conversation_id = None THEN @ + 1 ELSE @,
                      !.heap = Put(@, history, Append(Get(@, history, <<>>), user_message)),
                      !.log = Put(@, id, Append(Get(@, id, <<>>), user_message))]
          IN chat' =
               IF apiKey
               THEN [c EXCEPT !.req[r] = [q EXCEPT !.pc = "await", !.history = history]]
               ELSE Collect([c EXCEPT !.req[r] =
                               [q EXCEPT !.pc = "done",
                                         !.status = HTTP_503_SERVICE_UNAVAILABLE]])
  /\ UNCHANGED <<apiKey, pp, sa>>
  /\ UNCHANGED pollVars

\* chat() after the await: chat_service.chat has returned a message (the
\* answer, or its apology when the AI call failed); the message is appended,
\* the list is stored under the id and cut to its last 50 messages
ChatReply(r) ==
  /\ chat.req[r].pc = "await"
  /\ LET q == chat.req[r]
         assistant_message == [n |-> chat.seq + 1, role |-> "assistant"]
         history == Append(chat.heap[q.history], assistant_message)
         heap == Put(chat.heap, q.history, history)
         cut == Len(history) > MAX_CONVERSATION_MESSAGES
     IN chat' = Collect(
          [chat EXCEPT
             !.seq = @ + 1,
             !.heap = IF cut
                      THEN Put(heap, NewList(heap), LastN(history, MAX_CONVERSATION_MESSAGES))
                      ELSE heap,
             !.conversations = Put(@, q.conversation_id,
                                   IF cut THEN NewList(heap) ELSE q.history),
             !.log = Put(@, q.conversation_id,
                         Append(Get(@, q.conversation_id, <<>>), assistant_message)),
             !.req[r] = [q EXCEPT !.pc = "done", !.history = 0,
                                  !.assistant = assistant_message,
                                  !.status = HTTP_200_OK,
                                  !.total_messages = Len(history)]])
  /\ UNCHANGED <<apiKey, pp, sa>>
  /\ UNCHANGED pollVars

\* the response has been handed to the client
ChatReturn(r) ==
  /\ chat.req[r].pc = "done"
  /\ chat' = [chat EXCEPT !.req[r] = IdleChat]
  /\ UNCHANGED <<apiKey, pp, sa>>
  /\ UNCHANGED pollVars

\* clear_conversation: no await, the whole handler is one step
ClearConversation(conversation_id, account_type) ==
  /\ chat' = IF account_type # "VIP" THEN chat
             ELSE Collect([chat EXCEPT !.conversations = Del(@, conversation_id),
                                       !.cleared = Put(@, conversation_id, chat.seq),
                                       !.log = Del(@, conversation_id)])
  /\ UNCHANGED <<apiKey, pp, sa>>
  /\ UNCHANGED pollVars

ChatNext ==
  \/ \E r \in Req, id \in ConversationIdsGiven, t \in AccountTypes : ChatStart(r, id, t)
  \/ \E r \in Req : ChatReply(r)
  \/ \E r \in Req : ChatReturn(r)
  \/ \E id \in {"c1"} \cup DOMAIN chat.conversations, t \in AccountTypes :
       ClearConversation(id, t)

ChatSpec == ChatInit /\ [][ChatNext]_vars

\* ================================================================ claims
Done(r) == req[r].pc = "done"

\* the store reads of the request succeeded
ReadsOk(r) == req[r].path \notin {"lookup_error", "wait_error"}

\* the lookup of the request found a record
HadRecord(r) == ReadsOk(r) /\ req[r].latest # NoRec

AgeAtLookup(r) == req[r].start - req[r].latest.created_at

\* C1: a poll request whose lookup finds no record for the symbol calls the
\* prediction pipeline exactly once and answers with a response envelope,
\* whether that call succeeds (the envelope carries the new record) or fails.
C1_MissingOneAttemptEnvelope ==
  \A r \in Req :
    (Done(r) /\ req[r].path # "lookup_error" /\ req[r].latest = NoRec) =>
      /\ req[r].regenCalls = 1
      /\ req[r].resp.kind = "envelope"
      /\ (req[r].inserts = 1) = (req[r].resp.prediction # NoRec)

C1_Witness ==
  \E r \in Req :
    /\ Done(r) /\ req[r].path # "lookup_error" /\ req[r].latest = NoRec
    /\ apiKey /\ req[r].regenCalls = 1 /\ req[r].inserts = 0
    /\ req[r].resp.kind = "envelope" /\ ~req[r].resp.success

\* C2: a poll request whose lookup finds a record older than 300 seconds
\* (client timestamp given or not) calls the pipeline exactly once and the
\* record it returns has a created_at strictly later than the one found.
C2_StaleAlwaysRegenerated ==
  \A r \in Req :
    (Done(r) /\ HadRecord(r) /\ req[r].resp.kind = "envelope"
       /\ AgeAtLookup(r) > Seconds(CACHE_REFRESH_INTERVAL_SECONDS)) =>
      /\ req[r].regenCalls = 1
      /\ req[r].resp.prediction # NoRec
      /\ req[r].resp.prediction.created_at > req[r].latest.created_at

\* C3: a poll request without client timestamp whose lookup finds a record
\* of age <= 300 seconds answers has_new_data=true, cache_hit=true with that
\* record, and neither calls the pipeline nor inserts.
C3_FreshNoTimestampServed ==
  \A r \in Req :
    (Done(r) /\ HadRecord(r) /\ req[r].ts = NoTs
       /\ AgeAtLookup(r) <= Seconds(CACHE_REFRESH_INTERVAL_SECONDS)) =>
      /\ req[r].resp.kind = "envelope"
      /\ req[r].resp.has_new_data
      /\ req[r].resp.cache_hit
      /\ req[r].resp.prediction = req[r].latest
      /\ req[r].regenCalls = 0
      /\ req[r].inserts = 0
      /\ req[r].queries = 1

C3_Witness ==
  \E r \in Req :
    /\ Done(r) /\ HadRecord(r) /\ req[r].ts = NoTs
    /\ AgeAtLookup(r) > 0
    /\ AgeAtLookup(r) <= Seconds(CACHE_REFRESH_INTERVAL_SECONDS)
    /\ req[r].resp.has_new_data /\ req[r].resp.cache_hit

\* C4 as claimed: when the client timestamp equals the created_at of the
\* record found at lookup, the response has has_new_data=false, whatever the
\* age, the timeout and the other requests.
C4_EqualTimestampNeverNew ==
  \A r \in Req :
    (Done(r) /\ HadRecord(r) /\ req[r].resp.kind = "envelope"
       /\ req[r].ts = req[r].latest.created_at) =>
      ~req[r].resp.has_new_data

\* C4 amended: when the client timestamp equals the created_at of the record
\* found at lookup, the response has has_new_data=false exactly when it
\* carries that same record (nothing newer was found during the wait, and
\* the record was younger than 300 s at the end of the wait or the
\* regeneration failed); otherwise has_new_data=true and the record carried
\* is strictly newer than the client timestamp.
C4_EqualTimestampNewOnlyIfNewer ==
  \A r \in Req :
    (Done(r) /\ HadRecord(r) /\ req[r].ts = req[r].latest.created_at) =>
      /\ req[r].resp.kind = "envelope"
      /\ req[r].resp.prediction # NoRec
      /\ req[r].resp.has_new_data = (req[r].resp.prediction # req[r].latest)
      /\ req[r].resp.has_new_data => req[r].resp.prediction.created_at > req[r].ts

C4_Witness ==
  \E r \in Req :
    /\ Done(r) /\ HadRecord(r) /\ req[r].ts = req[r].latest.created_at
    /\ req[r].path = "still_fresh"
    /\ ~req[r].resp.has_new_data

\* C5: a poll request answers in a single round: one store lookup, never a
\* wait loop that re-queries the store.
C5_SingleRound ==
  \A r \in Req : req[r].pc \notin {"wait_query", "wait_sleep"} /\ req[r].queries <= 1

\* C6: any two records inserted by poll requests for one symbol are at least
\* 300 seconds apart in created_at.
C6_RegenerationSpacing ==
  \A a \in Records : \A b \in Records :
    (a.id # b.id /\ a.symbol = b.symbol /\ a.via = "poll" /\ b.via = "poll"
       /\ a.created_at <= b.created_at) =>
      b.created_at - a.created_at >= Seconds(CACHE_REFRESH_INTERVAL_SECONDS)

\* C7: a poll request calls the prediction pipeline at most once and inserts
\* at most one record, at every point of every path.
C7_AtMostOneRegeneration ==
  \A r \in Req : req[r].regenCalls <= 1 /\ req[r].inserts <= req[r].regenCalls

C7_Witness ==
  \E r \in Req :
    /\ Done(r) /\ req[r].path = "stale_ok"
    /\ req[r].regenCalls = 1 /\ req[r].inserts = 1

\* age in ticks, when the response is built, of the record it carries
ServedAge(r) == now - req[r].resp.prediction.created_at

\* C8 as claimed: every response that carries a record has
\* next_poll_after = max(5, 300 - age), age in whole seconds (rounded down
\* or up).
C8_NextPollAlwaysFromAge ==
  \A r \in Req :
    (Done(r) /\ req[r].resp.kind = "envelope" /\ req[r].resp.prediction # NoRec) =>
      LET lo == ServedAge(r) \div TicksPerSecond
          hi == (ServedAge(r) + TicksPerSecond - 1) \div TicksPerSecond
      IN \E age \in {lo, hi} :
           req[r].resp.next_poll_after = (IF 300 - age >= 5 THEN 300 - age ELSE 5)

\* C8 amended: a response that serves the record found at lookup without a
\* regeneration attempt has next_poll_after = max(5, int(300 - age)), the
\* difference truncated to whole seconds; a response with a record found
\* during the wait or just generated has 300; the stale record served after
\* a failed regeneration has 30.  A record whose created_at equals the
\* client timestamp and that is served again has has_new_data=false and
\* cache_hit=true.
C8_NextPollByPath ==
  \A r \in Req :
    (Done(r) /\ req[r].resp.kind = "envelope" /\ req[r].resp.prediction # NoRec) =>
      LET left == 600 - ServedAge(r)
          npa == req[r].resp.next_poll_after
      IN /\ (req[r].regenCalls = 0 /\ req[r].resp.prediction = req[r].latest) =>
              npa = (IF left >= 10 THEN left \div 2 ELSE 5)
         /\ (req[r].regenCalls = 0 /\ req[r].resp.prediction # req[r].latest) => npa = 300
         /\ (req[r].regenCalls = 1 /\ req[r].inserts = 1) => npa = 300
         /\ (req[r].regenCalls = 1 /\ req[r].inserts = 0) => npa = 30
         /\ (req[r].resp.prediction = req[r].latest /\ req[r].ts = req[r].latest.created_at) =>
              ~req[r].resp.has_new_data /\ req[r].resp.cache_hit

C8_Witness ==
  \E r \in Req :
    /\ Done(r) /\ req[r].resp.kind = "envelope"
    /\ req[r].ts = req[r].latest.created_at
    /\ req[r].resp.prediction = req[r].latest
    /\ ServedAge(r) = 251
    /\ req[r].resp.next_poll_after = 174
    /\ ~req[r].resp.has_new_data /\ req[r].resp.cache_hit

\* C9: when the regeneration of a stale record fails, the response carries
\* the stale record found at lookup with has_new_data=false, and the step
\* leaves the store as it was.
C9_StaleFailureServesPrior ==
  [][\A r \in Req :
       (req[r].pc = "gen_stale" /\ req'[r].pc = "done" /\ req'[r].inserts = 0) =>
         /\ store' = store
         /\ req'[r].resp.kind = "envelope"
         /\ req'[r].resp.prediction = req[r].latest
         /\ ~req'[r].resp.has_new_data]_vars

C9_Witness ==
  \E r \in Req :
    /\ Done(r) /\ req[r].path = "stale_fail"
    /\ req[r].resp.prediction = req[r].latest
    /\ now - req[r].latest.created_at >= Seconds(CACHE_REFRESH_INTERVAL_SECONDS)
    /\ Len(store) = 1

WellFormed(resp) ==
  /\ resp.kind = "envelope"
  /\ resp.success \in BOOLEAN
  /\ resp.has_new_data \in BOOLEAN
  /\ resp.cache_hit \in BOOLEAN
  /\ resp.next_poll_after \in Nat
  /\ resp.prediction = NoRec \/ resp.prediction \in Records

Malformed(reply) ==
  \/ reply.kind \in {"empty", "bad_json"}
  \/ reply.kind = "json" /\ ~(RequiredFields \subseteq reply.has)

\* a model_version that names a fallback, not the LLM model
IsFallbackVersion(v) == v # "" /\ v # OPENAI_MODEL

\* the table as it was when the run began
RowsBeforeRun ==
  IF pp.pc \in {"saved", "read"}
  THEN {pp.rows[i] : i \in 1..(Len(pp.rows) - 1)}
  ELSE Rows

RunOver == pp.pc \in {"failed", "saved"}

\* C11: a regeneration by the poll controller for a symbol without record,
\* with n >= 1 news items fetched and a malformed LLM reply (empty, not JSON,
\* a required member missing), ends with exactly one record for the symbol,
\* whose model_version names a fallback and whose news_analyzed is n.
C11_MalformedReplyFallsBack ==
  (RunOver /\ pp.via = "poll" /\ pp.news >= 1 /\ Malformed(pp.reply)
     /\ \A x \in RowsBeforeRun : x.symbol # Upper(pp.symbol)) =>
    /\ Cardinality(RowsOf(pp.symbol)) = 1
    /\ \A x \in RowsOf(pp.symbol) :
         IsFallbackVersion(x.model_version) /\ x.news_analyzed = pp.news

\* ------------------------------------------ claims on sentiment analysis
\* C12: when the LLM path of analyze_text fails (call error or timeout,
\* empty content, malformed JSON), the keyword fallback runs exactly once on
\* the same text and the caller receives its result; no error reaches the
\* caller and the LLM is called once only.
C12_LlmFailureAnsweredByKeywords ==
  (sa.pc = "done" /\ sa.llmFailed) =>
    /\ sa.llmCalls = 1
    /\ sa.keywordCalls = 1
    /\ sa.outcome = "result"
    /\ sa.result.sentiment_label \in {"bullish", "bearish", "neutral"}

\* C13: the keyword sentiment fallback and the causal/trend fallback never
\* fail: whenever one of them has run, it has returned a complete result
\* (label, score, confidence and model_version; relationship, correlation
\* and direction) and no error.
C13_FallbacksNeverFail ==
  /\ (sa.pc = "done" /\ sa.keywordCalls > 0) =>
       /\ sa.outcome = "result"
       /\ sa.result.sentiment_label \in {"bullish", "bearish", "neutral"}
       /\ sa.result.sentiment_score \in 0..100
       /\ sa.result.confNum \in 0..sa.result.confDen
       /\ sa.result.model_version # ""
  /\ (sa.pc = "causal_done" /\ sa.causal.by = "fallback") =>
       /\ sa.causal.relationship_type \in {"STRONG", "MODERATE", "WEAK", "NONE"}
       /\ sa.causal.correlation \in -500..500
       /\ sa.causal.direction \in {"UP", "DOWN", "NEUTRAL"}
       /\ sa.causal.confidence \in 0..100
       /\ sa.result.model_version # ""

\* ------------------------------------- further claims on the controller
\* C14: with the LLM credentials absent, a poll request that tries to
\* regenerate is answered with an explicit configuration failure, not with
\* the envelope an ordinary regeneration failure gets.
C14_MissingCredentialsSurfaced ==
  \A r \in Req :
    (Done(r) /\ ~apiKey /\ req[r].regenCalls = 1) =>
      /\ req[r].resp # MissingFailureResponse
      /\ req[r].resp # StaleFailureResponse(req[r].latest)

\* the record of the response is the one this request has just inserted
OwnInsert(r) ==
  /\ req[r].inserts = 1
  /\ Len(store) > 0
  /\ req[r].resp.prediction = store[Len(store)]

\* C15: in every response that carries a record, cache_hit is false when the
\* record was inserted by this request's own regeneration and true when it
\* was read from the store, a record inserted by a concurrent request
\* included.
C15_CacheHitUnlessOwnInsert ==
  \A r \in Req :
    (Done(r) /\ req[r].resp.kind = "envelope" /\ req[r].resp.prediction # NoRec) =>
      /\ req[r].resp.prediction \in Records
      /\ req[r].resp.cache_hit = ~OwnInsert(r)
      /\ (req[r].inserts = 1) = OwnInsert(r)

C15_Witness ==
  \E r \in Req :
    /\ Done(r) /\ req[r].path = "found"
    /\ req[r].resp.prediction.via = "poll"
    /\ req[r].resp.cache_hit
    /\ req[r].inserts = 0

\* the records inserted for a symbol, whatever its spelling
InsertedFor(symbol) == {x \in Records : Upper(x.symbol) = Upper(symbol)}

LatestIsNewest(symbol) ==
  IF InsertedFor(symbol) = {}
  THEN GetLatestBySymbol(symbol) = {NoRec}
  ELSE \A y \in GetLatestBySymbol(symbol) :
         /\ y \in InsertedFor(symbol)
         /\ \A x \in InsertedFor(symbol) : x.created_at <= y.created_at

\* C16: after every step, get_latest_by_symbol(s) gives a record of maximal
\* created_at among all records inserted for s in any spelling, or none when
\* there is none; and no step changes or removes a record of the store.
C16_LatestIsNewestAppendOnly ==
  [][/\ Len(store') >= Len(store)
     /\ \A i \in 1..Len(store) : store'[i] = store[i]
     /\ \A s \in RawSymbols : LatestIsNewest(s)']_vars

C16_Witness ==
  /\ Len(store) = 2
  /\ store[1].created_at < store[2].created_at
  /\ GetLatestBySymbol("btcusdt") = {store[2]}
  /\ store[2].via = "oneshot"

SavedRowIsNewest ==
  \A x \in RowsBeforeRun :
    Upper(x.symbol) = Upper(pp.symbol) => x.created_at < pp.clock

C18_OnlyControllerInserts ==
  \A x \in Records : x.via = "poll"

\* a regeneration step of poll request r that inserts after a successful
\* pipeline call
PollInsertStep(r) ==
  \E f \in FetchOutcomes, l \in LlmOutcomes :
    /\ GenerateMissing(r, f, l, "ok") \/ GenerateStale(r, f, l, "ok")
    /\ PredictPrice(apiKey, f, l) = "ok"
    /\ req'[r].inserts = req[r].inserts + 1
    /\ req'[r].resp.prediction = store'[Len(store')]
    /\ store'[Len(store')].via = "poll"

\* a successful call of POST /predict-price
OneShotInsertStep ==
  \E s \in RawSymbols, f \in FetchOutcomes, l \in LlmOutcomes :
    /\ PredictPriceFromNews(s, f, l, "ok")
    /\ PredictPrice(apiKey, f, l) = "ok"
    /\ store'[Len(store')].via = "oneshot"

\* C18 amended: a record is added to the store only by a regeneration of the
\* poll controller or by the one-shot endpoint POST /predict-price, in both
\* cases one record after a successful pipeline call; no other step adds,
\* changes or removes a record.
C18_InsertsByControllerOrOneShot ==
  [][store' # store =>
       /\ Len(store') = Len(store) + 1
       /\ \A i \in 1..Len(store) : store'[i] = store[i]
       /\ (\E r \in Req : PollInsertStep(r)) \/ OneShotInsertStep]_vars

C18_Witness ==
  /\ Len(store) = 2
  /\ store[1].via = "oneshot"
  /\ store[2].via = "poll"
  /\ \E r \in Req : Done(r) /\ req[r].path = "stale_ok"

\* ------------------------------------------- what the pipeline persists
\* C19: every persisted prediction record has between 1 and 5 key_factors;
\* a reply that proposes more (7) is stored with exactly 5.
C19_KeyFactorsOneToFive ==
  \A x \in Rows :
    /\ Len(JsonLoads(x.key_factors)) >= 1
    /\ Len(JsonLoads(x.key_factors)) <= 5

\* the reply is a JSON object with every required member
CompleteReply(reply) == reply.kind = "json" /\ RequiredFields \subseteq reply.has

\* C20: a complete LLM reply whose confidence lies outside [0,1] still ends
\* the regeneration with a record (the store write permitting), and that
\* record carries the confidence clamped to the nearest bound.
C20_ConfidenceClamped ==
  (RunOver /\ CompleteReply(pp.reply) /\ pp.reply.confidence \notin 0..100
     /\ pp.error # "insert_error") =>
    /\ pp.pc = "saved"
    /\ pp.rows[Len(pp.rows)].confidence = Clamp01(pp.reply.confidence)

\* ---------------------------------------------------------- chat claims
\* the list stored under a conversation id
Stored(id) == chat.heap[chat.conversations[id]]

\* a chat request for the id is suspended at the AI call
InFlight(id) ==
  \E r \in Req : chat.req[r].pc = "await" /\ chat.req[r].conversation_id = id

\* C21: in every reachable state, also while chat requests for the id are
\* suspended or interleaved, the stored conversation of every id holds at
\* most 50 messages, and what is kept is the 50 most recent messages of the
\* conversation in order.
C21_ConversationAtMostFifty ==
  \A id \in DOMAIN chat.conversations :
    /\ Len(Stored(id)) <= MAX_CONVERSATION_MESSAGES
    /\ Stored(id) = LastN(Get(chat.log, id, <<>>), MAX_CONVERSATION_MESSAGES)

\* the last message created before the latest deletion of the id
ClearedAt(id) == Get(chat.cleared, id, 0)

\* the message is in the stored conversation, or the cap has pushed it out
Kept(m, id) ==
  \/ \E i \in 1..Len(Stored(id)) : Stored(id)[i] = m
  \/ /\ Len(Stored(id)) = MAX_CONVERSATION_MESSAGES
     /\ m.n < Stored(id)[1].n

\* both requests were answered for the same conversation, the second one
\* started while the first one was suspended, and the conversation was not
\* deleted meanwhile
Interleaved(a, b) ==
  /\ a # b
  /\ chat.req[a].pc = "done" /\ chat.req[a].status = HTTP_200_OK
  /\ chat.req[b].pc = "done" /\ chat.req[b].status = HTTP_200_OK
  /\ chat.req[a].conversation_id = chat.req[b].conversation_id
  /\ chat.req[a].user.n < chat.req[b].user.n
  /\ chat.req[b].overlapped
  /\ ClearedAt(chat.req[a].conversation_id) < chat.req[a].user.n

\* C29: when two chat requests with the same conversation id are interleaved
\* at the await of the AI call, then after both have completed the stored
\* conversation contains the user and assistant messages of both (up to the
\* cap of 50), also when the conversation did not exist before either.
C29_NoLostUpdate ==
  \A a, b \in Req :
    Interleaved(a, b) =>
      /\ chat.req[a].conversation_id \in DOMAIN chat.conversations
      /\ \A m \in {chat.req[a].user, chat.req[a].assistant,
                   chat.req[b].user, chat.req[b].assistant} :
           Kept(m, chat.req[a].conversation_id)

\* C30: once clear_conversation(id) has run, the id is stored again only by
\* a chat request that started after the deletion: no message created
\* before the deletion, and no request that was suspended when it ran,
\* brings the conversation back.
C30_ClearedStaysCleared ==
  \A id \in DOMAIN chat.conversations :
    \A i \in 1..Len(Stored(id)) : Stored(id)[i].n > ClearedAt(id)

\* ------------------------------------------- keyword fallback, by counts
\* the keyword counts of the text under analysis
BullishCount == KeywordCount(bullish_keywords, sa.request.text)
BearishCount == KeywordCount(bearish_keywords, sa.request.text)
NeutralCount == KeywordCount(neutral_keywords, sa.request.text)

\* _analyze_with_keywords has run on the request
KeywordsRan == sa.pc = "done" /\ sa.keywordCalls = 1

\* C22: tie-break of the keyword fallback: with bullish count b, bearish
\* count r and neutral count n, if b = r, or neither b nor r is strictly
\* greater than both other counts, the result has label neutral and score
\* 0.5; otherwise the strictly dominant set gives the label.
C22_KeywordTieBreak ==
  KeywordsRan =>
    /\ sa.outcome = "result"
    /\ LET b == BullishCount
           r == BearishCount
           n == NeutralCount
       IN IF b = r \/ (~(b > r /\ b > n) /\ ~(r > b /\ r > n))
          THEN sa.result.sentiment_label = "neutral" /\ sa.result.sentiment_score = 50
          ELSE sa.result.sentiment_label = (IF b > r /\ b > n THEN "bullish" ELSE "bearish")

\* C23: with r > 0 bearish matches and no bullish or neutral match the
\* result has label bearish and score max(0.05, 0.5 - 0.08 r), between 0.05
\* and 0.5; with b > 0 bullish matches only, label bullish and score
\* min(0.95, 0.5 + 0.08 b).
C23_DominantScore ==
  /\ (KeywordsRan /\ BearishCount > 0 /\ BullishCount = 0 /\ NeutralCount = 0) =>
       /\ sa.outcome = "result"
       /\ sa.result.sentiment_label = "bearish"
       /\ sa.result.sentiment_score = Max(5, 50 - 8 * BearishCount)
       /\ sa.result.sentiment_score \in 5..50
  /\ (KeywordsRan /\ BullishCount > 0 /\ BearishCount = 0 /\ NeutralCount = 0) =>
       /\ sa.outcome = "result"
       /\ sa.result.sentiment_label = "bullish"
       /\ sa.result.sentiment_score = Min(95, 50 + 8 * BullishCount)

\* ------------------------------------------------------ upstream fetchers
\* an empty result handed to the caller of the fetcher
EmptyResult == [ok |-> TRUE, items |-> 0]

\* C24: every upstream fetcher (news fetch, candle fetches) turns a failure
\* of its upstream (unreachable, timeout, non-success status) into an empty
\* result for its caller and never raises: predict_price goes on as with an
\* empty list of news.
C24_FetchersReturnEmpty ==
  [][\A u \in UpstreamReplies :
       u.kind \in UpstreamFailures =>
         /\ FetchRecentKlines(u) = EmptyResult
         /\ FetchPriceHistory(u) = EmptyResult
         /\ PpFetch(FetchLatestNews(u)) => pp'.error = "ValueError_no_news"]_vars

\* -------------------------------------- the controller's responses, again
Answered(r) == Done(r) /\ req[r].resp.kind = "envelope"

\* C25: in every response to a request that supplied last_prediction_time
\* and that says has_new_data=true, the created_at of the returned record is
\* strictly later than last_prediction_time, for every client timestamp.
C25_NewDataIsLater ==
  \A r \in Req :
    (Answered(r) /\ req[r].ts # NoTs /\ req[r].resp.has_new_data) =>
      req[r].resp.prediction.created_at > req[r].ts

\* C25 (amended): the same for every client timestamp earlier than the
\* arrival of the request.
C25_NewDataIsLaterThanPastTimestamp ==
  \A r \in Req :
    (Answered(r) /\ req[r].ts # NoTs /\ req[r].ts < req[r].start
       /\ req[r].resp.has_new_data) =>
      /\ req[r].resp.prediction # NoRec
      /\ req[r].resp.prediction.created_at > req[r].ts

C25_Witness ==
  \E r \in Req :
    /\ Answered(r) /\ req[r].ts # NoTs /\ req[r].ts < req[r].start
    /\ req[r].resp.has_new_data
    /\ req[r].path = "found"
    /\ req[r].resp.prediction.created_at > req[r].latest.created_at

\* C27: in every response, has_new_data=true implies success=true and a
\* record, and success=false implies no record, has_new_data=false and
\* cache_hit=false.
C27_EnvelopeConsistent ==
  \A r \in Req :
    Answered(r) =>
      /\ req[r].resp.has_new_data =>
           (req[r].resp.success /\ req[r].resp.prediction # NoRec)
      /\ ~req[r].resp.success =>
           /\ req[r].resp.prediction = NoRec
           /\ ~req[r].resp.has_new_data
           /\ ~req[r].resp.cache_hit

C27_Witness ==
  \E r \in Req :
    /\ Answered(r) /\ req[r].path = "missing_fail"
    /\ ~req[r].resp.success /\ ~req[r].resp.cache_hit
    /\ req[r].resp.prediction = NoRec

\* C28: every response has next_poll_after between 5 and 300 seconds, on
\* every path and for every age of the record.
C28_NextPollWithinBounds ==
  \A r \in Req :
    Answered(r) =>
      /\ req[r].resp.next_poll_after >= MIN_NEXT_POLL_SECONDS
      /\ req[r].resp.next_poll_after <= CACHE_REFRESH_INTERVAL_SECONDS

C28_Witness ==
  \E r \in Req :
    /\ Answered(r) /\ req[r].path = "serve"
    /\ ServedAge(r) > Seconds(CACHE_REFRESH_INTERVAL_SECONDS)
    /\ req[r].resp.next_poll_after = MIN_NEXT_POLL_SECONDS

\* ------------------------------------------------------------- the wait
Waiting(r) == req[r].pc \in {"wait_query", "wait_sleep"}

\* the request is about to check the store: on entering the wait, or on
\* waking up with the timeout not elapsed
Checking(r) ==
  \/ req[r].pc = "wait_query"
  \/ /\ req[r].pc = "wait_sleep"
     /\ now - req[r].start < Seconds(req[r].timeout)

\* the records the request waits for
Newer(r) ==
  {x \in Records : x.symbol = req[r].symbol /\ x.created_at > req[r].ts}

====
